---------------------------- MODULE Spec2Model ----------------------------
(***************************************************************************)
(* A model of src/etf.py: the ETF grid monitor.                            *)
(*                                                                         *)
(* Numbers.  The program computes with binary floating point.  The model   *)
(* computes with exact integers:                                           *)
(*   - a fraction of one (dividend yield, grid spacing, step_pct, weight,  *)
(*     threshold) is an integer number of 1/Scale, so 0.04 is 40;          *)
(*   - a price is an integer number of 0.001 (get_price_from_api rounds to *)
(*     three decimals), so 1.040 is 1040.                                  *)
(* The prices and spacings the model draws are values for which the        *)
(* floating point expressions of the source give the exact quotient's      *)
(* integer part (the expression of etf.py:244-249 was evaluated on each),   *)
(* and the rotation configurations it draws are ones on which the source's *)
(* floating point comparisons and roundings give the exact result.         *)
(*                                                                         *)
(* None is the empty tuple and a present price p is the tuple <<p>>.       *)
(***************************************************************************)
EXTENDS Integers, Sequences, FiniteSets, TLC

VARIABLES
    ETF_CONFIG,       \* etf.py:49   asset name -> its configuration
    ROTATION_CONFIG,  \* etf.py:50   the rotation configuration, or None
    state,            \* main_loop's state: asset name -> [last_price, tick]
    disk,             \* the content of STATE_FILE
    pc,               \* where main_loop stands
    idx,              \* position of the for loop of etf.py:438
    all_messages,     \* etf.py:435
    ev,               \* the last call of check_signals_for_etf: inputs and results
    rot,              \* the last call of compute_rotation_suggestions: its intermediate values
    state0,           \* the value of state when the current cycle began
    fetched,          \* this cycle's result of get_price_from_api, per asset
    notified,         \* this cycle's call of send_notification: "none" or its outcome
    saved,            \* this cycle's call of save_state: "none" or its outcome
    written,          \* <<st>> when STATE_FILE holds the document save_state wrote for st, else <<>>
    restarts,         \* how many times the process was killed and started again
    market,           \* the prices the price source can answer with
    outbox,           \* this cycle's calls of send_notification: the content of each
    rot_first,        \* <<r>> when this process's first call of compute_rotation_suggestions returned r
    tally             \* per tallied asset: what its evaluations emitted since its first observation

vars == <<ETF_CONFIG, ROTATION_CONFIG, state, disk, pc, idx, all_messages, ev, rot,
          state0, fetched, notified, saved, written, restarts, market, outbox, rot_first,
          tally>>

-----------------------------------------------------------------------------
(* Bounds of the model *)

\* no cycle begins once an asset's tick has reached MaxTick
MaxTick == 3

\* the process is killed and started again at most MaxRestarts times
MaxRestarts == 1

-----------------------------------------------------------------------------
(* Units and small helpers *)

Scale == 10 * 100

None == <<>>

Some(p) == <<p>>

Min(a, b) == IF a <= b THEN a ELSE b

Max(a, b) == IF a >= b THEN a ELSE b

Abs(a) == IF a >= 0 THEN a ELSE -a

\* floor of the quotient a / b, b > 0: what the specification states for the grid index
FloorDiv(a, b) == a \div b

\* Python's int() of the quotient a / b, b > 0: the fraction is dropped, towards zero
IntDiv(a, b) == IF a >= 0 THEN a \div b ELSE -((-a) \div b)

\* Python's round() of the quotient a / b, a >= 0, b > 0: to nearest, a tie to the even integer
RoundDiv(a, b) ==
    LET q == a \div b
        r == a % b
    IN  IF 2 * r < b THEN q
        ELSE IF 2 * r > b THEN q + 1
        ELSE IF q % 2 = 0 THEN q ELSE q + 1

\* dict.get(key, default)
Get(d, key, default) == IF key \in DOMAIN d THEN d[key] ELSE default

RECURSIVE GCD(_, _)
GCD(a, b) == IF b = 0 THEN a ELSE GCD(b, a % b)

\* a / b <= c / d: the comparison of etf.py:365 turned round
FracLE(a, b, c, d) ==
    LET g == GCD(a, b)
        h == GCD(c, d)
    IN  (a \div g) * (d \div h) <= (c \div h) * (b \div g)

\* a / b >= c / d for a, c >= 0 and b, d > 0, each fraction first brought to lowest terms
FracGE(a, b, c, d) ==
    LET g == GCD(a, b)
        h == GCD(c, d)
    IN  (a \div g) * (d \div h) >= (c \div h) * (b \div g)

RECURSIVE GCDSeq(_)
GCDSeq(s) == IF s = <<>> THEN 0 ELSE GCD(Head(s), GCDSeq(Tail(s)))

RECURSIVE SumSeq(_)
SumSeq(s) == IF s = <<>> THEN 0 ELSE Head(s) + SumSeq(Tail(s))

\* the keys of a dict in iteration order: the configuration file's order
AssetOrder == <<"A", "B", "C">>

Assets == {AssetOrder[i] : i \in 1..Len(AssetOrder)}

Keys(d) == SelectSeq(AssetOrder, LAMBDA n : n \in DOMAIN d)


-----------------------------------------------------------------------------
(* Tier policy: decide_grid_and_mode, etf.py:174-202 *)

\* decide_grid_and_mode with every tier's lower bound exclusive
decide_grid_and_mode_exclusive(cfg) ==
    LET dy == Get(cfg, "dividend_yield", None)
    IN  IF dy = None
        THEN [grid_pct |-> Get(cfg, "grid_pct", 40), can_buy |-> TRUE, can_sell |-> TRUE,
              label |-> "unknown"]
        ELSE IF dy[1] > 70
        THEN [grid_pct |-> Get(cfg, "grid_low", 30), can_buy |-> TRUE, can_sell |-> TRUE,
              label |-> "A"]
        ELSE IF dy[1] > 60
        THEN [grid_pct |-> Get(cfg, "grid_mid", 40), can_buy |-> TRUE, can_sell |-> TRUE,
              label |-> "B"]
        ELSE IF dy[1] > 50
        THEN [grid_pct |-> Get(cfg, "grid_high", 50), can_buy |-> TRUE, can_sell |-> TRUE,
              label |-> "C"]
        ELSE [grid_pct |-> Get(cfg, "grid_expensive", 60), can_buy |-> FALSE,
              can_sell |-> TRUE, label |-> "D"]

decide_grid_and_mode(cfg) ==
    LET dy == Get(cfg, "dividend_yield", None)
    IN  IF dy = None
        THEN [grid_pct |-> Get(cfg, "grid_pct", 40), can_buy |-> TRUE, can_sell |-> TRUE,
              label |-> "unknown"]
        ELSE IF dy[1] >= 70
        THEN [grid_pct |-> Get(cfg, "grid_low", 30), can_buy |-> TRUE, can_sell |-> TRUE,
              label |-> "A"]
        ELSE IF 60 <= dy[1] /\ dy[1] < 70
        THEN [grid_pct |-> Get(cfg, "grid_mid", 40), can_buy |-> TRUE, can_sell |-> TRUE,
              label |-> "B"]
        ELSE IF 50 <= dy[1] /\ dy[1] < 60
        THEN [grid_pct |-> Get(cfg, "grid_high", 50), can_buy |-> TRUE, can_sell |-> TRUE,
              label |-> "C"]
        ELSE [grid_pct |-> Get(cfg, "grid_expensive", 60), can_buy |-> FALSE,
              can_sell |-> TRUE, label |-> "D"]

-----------------------------------------------------------------------------
(* Grid engine: check_signals_for_etf, etf.py:207-295 *)

\* etf.py:219-221
StepUnits(cfg) ==
    LET step_pct   == Get(cfg, "step_pct", 10)
        base_units == Get(cfg, "base_units", 0)
    IN  IF base_units # 0 THEN IntDiv(base_units * step_pct, Scale) ELSE 0

\* etf.py:244-249: int((price / base_price - 1) / grid_pct)
GridOf(price, base_price, grid_pct) ==
    IntDiv((price - base_price) * Scale, base_price * grid_pct)

GridMessage(kind, name, cfg, g) ==
    [kind |-> kind, name |-> name, g |-> g, step_units |-> StepUnits(cfg)]

\* the sell loop begun one grid line early: range(last_grid, current_grid)
SellMessagesFromLastGrid(name, cfg, last_grid, current_grid) ==
    [i \in 1..(current_grid - last_grid) |-> GridMessage("sell", name, cfg, last_grid + i - 1)]

\* etf.py:261-274: for g in range(last_grid + 1, current_grid + 1)
SellMessages(name, cfg, last_grid, current_grid) ==
    [i \in 1..(current_grid - last_grid) |-> GridMessage("sell", name, cfg, last_grid + i)]

\* the buy loop ended one grid line early: range(last_grid - 1, current_grid, -1)
BuyMessagesStoppingEarly(name, cfg, last_grid, current_grid) ==
    [i \in 1..(last_grid - current_grid - 1) |-> GridMessage("buy", name, cfg, last_grid - i)]

\* etf.py:277-290: for g in range(last_grid - 1, current_grid - 1, -1)
BuyMessages(name, cfg, last_grid, current_grid) ==
    [i \in 1..(last_grid - current_grid) |-> GridMessage("buy", name, cfg, last_grid - i)]

\* the crossing detector without the permission gates of the tier
CrossingMessagesAnyMode(name, cfg, mode, last_grid, current_grid) ==
    IF current_grid > last_grid
    THEN [i \in 1..(current_grid - last_grid) |-> GridMessage("sell", name, cfg, last_grid + i)]
    ELSE [i \in 1..(last_grid - current_grid) |-> GridMessage("buy", name, cfg, last_grid - i)]

\* etf.py:260-290: the messages of one evaluation with a previous price
CrossingMessages(name, cfg, mode, last_grid, current_grid) ==
    IF current_grid > last_grid /\ mode.can_sell
    THEN SellMessages(name, cfg, last_grid, current_grid)
    ELSE IF current_grid < last_grid /\ mode.can_buy
    THEN BuyMessages(name, cfg, last_grid, current_grid)
    ELSE <<>>

\* what one evaluation adds to the count kept for its asset: the first observation
\* (etf.py:234-240) begins the count, a later one adds the messages of etf.py:261-290;
\* a drop that emitted nothing because buying is not permitted is counted apart, and
\* so is a failed fetch (etf.py:227 raises)
FreshTally == [first |-> None, sells |-> 0, buys |-> 0, suppressed |-> 0, failed |-> 0]

Tallies(names) == [n \in names |-> FreshTally]

Tally(t, r) ==
    IF ~r.ok THEN [t EXCEPT !.failed = @ + 1]
    ELSE IF r.ev.first THEN [FreshTally EXCEPT !.first = Some(r.ev.price)]
    ELSE [t EXCEPT !.sells = @ + Len(SelectSeq(r.msgs, LAMBDA m : m.kind = "sell")),
                   !.buys  = @ + Len(SelectSeq(r.msgs, LAMBDA m : m.kind = "buy")),
                   !.suppressed = @ + (IF r.ev.current_grid < r.ev.last_grid /\ r.msgs = <<>>
                                       THEN 1 ELSE 0)]

\* what get_price_from_api does, etf.py:95-138: it raises, or returns a price
FetchOutcomes(prices) ==
    {[ok |-> FALSE, price |-> 0]} \cup {[ok |-> TRUE, price |-> p] : p \in prices}

NoEval ==
    [name |-> "", ok |-> FALSE, first |-> FALSE, prev |-> [last_price |-> None, tick |-> 0],
     price |-> 0, mode |-> decide_grid_and_mode(<<>>), current_grid |-> 0, last_grid |-> 0,
     msgs |-> <<>>]

\* check_signals_for_etf that drops the previous price when the fetch fails
check_signals_dropping_price(name, cfg, st, outcome) ==
    LET mode == decide_grid_and_mode(cfg)
        st1  == [st EXCEPT ![name].tick = st[name].tick + 1]
        last_price == st1[name].last_price
        rec  == [name |-> name, ok |-> outcome.ok, first |-> last_price = None,
                 prev |-> st[name], price |-> outcome.price, mode |-> mode,
                 current_grid |-> 0, last_grid |-> 0, msgs |-> <<>>]
    IN  IF ~outcome.ok
        THEN [st |-> [st1 EXCEPT ![name].last_price = None], msgs |-> <<>>, ok |-> FALSE,
              ev |-> rec]
        ELSE IF last_price = None
        THEN [st |-> [st1 EXCEPT ![name].last_price = Some(outcome.price)], msgs |-> <<>>,
              ok |-> TRUE, ev |-> rec]
        ELSE LET current_grid == GridOf(outcome.price, cfg["base_price"], mode.grid_pct)
                 last_grid    == GridOf(last_price[1], cfg["base_price"], mode.grid_pct)
                 messages     == CrossingMessages(name, cfg, mode, last_grid, current_grid)
             IN  [st |-> [st1 EXCEPT ![name].last_price = Some(outcome.price)],
                  msgs |-> messages, ok |-> TRUE,
                  ev |-> [rec EXCEPT !.current_grid = current_grid,
                                     !.last_grid = last_grid, !.msgs = messages]]

\* check_signals_for_etf that measures a first observation from base_price
check_signals_first_from_base(name, cfg, st, outcome) ==
    LET mode == decide_grid_and_mode(cfg)
        st1  == [st EXCEPT ![name].tick = st[name].tick + 1]
        last_price == st1[name].last_price
        rec  == [name |-> name, ok |-> outcome.ok, first |-> last_price = None,
                 prev |-> st[name], price |-> outcome.price, mode |-> mode,
                 current_grid |-> 0, last_grid |-> 0, msgs |-> <<>>]
    IN  IF ~outcome.ok
        THEN [st |-> st1, msgs |-> <<>>, ok |-> FALSE, ev |-> rec]
        ELSE LET current_grid == GridOf(outcome.price, cfg["base_price"], mode.grid_pct)
                 last_grid    == IF last_price = None THEN 0
                                 ELSE GridOf(last_price[1], cfg["base_price"], mode.grid_pct)
                 messages     == CrossingMessages(name, cfg, mode, last_grid, current_grid)
             IN  [st |-> [st1 EXCEPT ![name].last_price = Some(outcome.price)],
                  msgs |-> messages, ok |-> TRUE,
                  ev |-> [rec EXCEPT !.current_grid = current_grid,
                                     !.last_grid = last_grid, !.msgs = messages]]

\* check_signals_for_etf that moves the reference price only when it emits a message
check_signals_keeping_reference(name, cfg, st, outcome) ==
    LET mode == decide_grid_and_mode(cfg)
        st1  == [st EXCEPT ![name].tick = st[name].tick + 1]
        last_price == st1[name].last_price
        rec  == [name |-> name, ok |-> outcome.ok, first |-> last_price = None,
                 prev |-> st[name], price |-> outcome.price, mode |-> mode,
                 current_grid |-> 0, last_grid |-> 0, msgs |-> <<>>]
    IN  IF ~outcome.ok
        THEN [st |-> st1, msgs |-> <<>>, ok |-> FALSE, ev |-> rec]
        ELSE IF last_price = None
        THEN [st |-> [st1 EXCEPT ![name].last_price = Some(outcome.price)], msgs |-> <<>>,
              ok |-> TRUE, ev |-> rec]
        ELSE LET current_grid == GridOf(outcome.price, cfg["base_price"], mode.grid_pct)
                 last_grid    == GridOf(last_price[1], cfg["base_price"], mode.grid_pct)
                 messages     == CrossingMessages(name, cfg, mode, last_grid, current_grid)
             IN  [st |-> IF messages = <<>> THEN st1
                         ELSE [st1 EXCEPT ![name].last_price = Some(outcome.price)],
                  msgs |-> messages, ok |-> TRUE,
                  ev |-> [rec EXCEPT !.current_grid = current_grid,
                                     !.last_grid = last_grid, !.msgs = messages]]

\* One call check_signals_for_etf(name, cfg, st) in which get_price_from_api ends as
\* `outcome`: the state it leaves, the messages it returns, whether it returned at all,
\* and the values it computed on the way.
check_signals_for_etf(name, cfg, st, outcome) ==
    LET base_price == cfg["base_price"]
        mode       == decide_grid_and_mode(cfg)
        tick       == st[name].tick + 1                                  \* etf.py:224
        st1        == [st EXCEPT ![name].tick = tick]                    \* etf.py:225
        last_price == st1[name].last_price                               \* etf.py:228
        rec        == [name |-> name, ok |-> outcome.ok, first |-> FALSE, prev |-> st[name],
                       price |-> outcome.price, mode |-> mode, current_grid |-> 0,
                       last_grid |-> 0, msgs |-> <<>>]
    IN  IF ~outcome.ok
        THEN \* etf.py:227 raises: the caller's except clause ends the evaluation
             [st |-> st1, msgs |-> <<>>, ok |-> FALSE, ev |-> rec]
        ELSE IF last_price = None
        THEN \* etf.py:234-240
             [st   |-> [st1 EXCEPT ![name].last_price = Some(outcome.price)],
              msgs |-> <<>>, ok |-> TRUE, ev |-> [rec EXCEPT !.first = TRUE]]
        ELSE LET current_grid == GridOf(outcome.price, base_price, mode.grid_pct)
                 last_grid    == GridOf(last_price[1], base_price, mode.grid_pct)
                 messages     == CrossingMessages(name, cfg, mode, last_grid, current_grid)
             IN  [st   |-> [st1 EXCEPT ![name].last_price = Some(outcome.price)],  \* etf.py:294
                  msgs |-> messages, ok |-> TRUE,
                  ev   |-> [rec EXCEPT !.current_grid = current_grid,
                                       !.last_grid = last_grid, !.msgs = messages]]

-----------------------------------------------------------------------------
(* Rotation engine: compute_rotation_suggestions, etf.py:298-426 *)

\* A weight is the fraction num / den of two integers.
NoRotation ==
    [msgs |-> <<>>, stage |-> "off", etfs |-> <<>>, w_num |-> <<>>, w_den |-> 1,
     min_w |-> 0, max_w |-> 0, target_units |-> <<>>, current_units |-> <<>>]

\* the value of rot while this cycle has not called compute_rotation_suggestions
RotationPending == [NoRotation EXCEPT !.stage = "pending"]

compute_rotation_suggestions(rc, ec) ==
    IF rc = None \/ ~Get(rc, "enabled", FALSE)                          \* etf.py:303-306
    THEN NoRotation
    ELSE
    LET members == Get(rc, "members", <<>>)
        etfs    == SelectSeq(members, LAMBDA m : m \in DOMAIN ec)            \* etf.py:313
        names   == {etfs[i] : i \in 1..Len(etfs)}
        units(n) == Get(ec[n], "base_units", 0)
        cfg_total == Get(rc, "total_base_units", 0)
        total_base_units ==                                                  \* etf.py:317-320
            IF cfg_total <= 0 THEN SumSeq([i \in 1..Len(etfs) |-> units(etfs[i])])
            ELSE cfg_total
        min_w == Get(rc, "min_weight", 300)
        max_w == Get(rc, "max_weight", 700)
        rebalance_threshold == Get(rc, "rebalance_threshold", 100)
        \* etf.py:329-334
        dy(n)       == Get(ec[n], "dividend_yield", Some(0))[1]
        scores      == [n \in names |-> Max(dy(n), 0)]
        total_score == SumSeq([i \in 1..Len(etfs) |-> scores[etfs[i]]])
        \* etf.py:338-346.  raw weight = scores[n] / total_score; every weight below is
        \* written over the common denominator Scale * total_score.
        clipped     == [n \in names |->
                          Min(Max(scores[n] * Scale, min_w * total_score), max_w * total_score)]
        clipped_sum == SumSeq([i \in 1..Len(etfs) |-> clipped[etfs[i]]])
        \* weights[n] = clipped[n] / clipped_sum, in lowest terms w_num[n] / w_den
        common == GCDSeq([i \in 1..Len(etfs) |-> clipped[etfs[i]]])
        w_num  == [n \in names |-> clipped[n] \div common]
        w_den  == clipped_sum \div common
        target_units  == [n \in names |-> RoundDiv(total_base_units * w_num[n], w_den)]
        current_units == [n \in names |-> units(n)]
        current_total_units == SumSeq([i \in 1..Len(etfs) |-> current_units[etfs[i]]])
        \* etf.py:361-366: abs(current_weights[n] - weights[n]) >= rebalance_threshold / 2
        need_rebalance ==
            \E n \in names :
                FracGE(Abs(current_units[n] * w_den - w_num[n] * current_total_units),
                       current_total_units * w_den, rebalance_threshold, 2 * Scale)
        diffs     == [n \in names |-> target_units[n] - current_units[n]]
        cheap     == SelectSeq(etfs, LAMBDA n : diffs[n] > 0)
        expensive == SelectSeq(etfs, LAMBDA n : diffs[n] < 0)
        cheap_name      == cheap[1]
        expensive_name  == expensive[1]
        suggested_units == Min(diffs[cheap_name], -diffs[expensive_name])
        min_units       == Max(Max(StepUnits(ec[cheap_name]), StepUnits(ec[expensive_name])), 1)
        out(stage, msgs) ==
            [msgs |-> msgs, stage |-> stage, etfs |-> etfs, w_num |-> w_num,
             w_den |-> w_den, min_w |-> min_w, max_w |-> max_w,
             target_units |-> target_units, current_units |-> current_units]
    IN  IF Len(members) < 2 \/ Len(etfs) < 2 THEN NoRotation            \* etf.py:309-315
        ELSE IF total_base_units <= 0 THEN NoRotation                    \* etf.py:321
        ELSE IF total_score <= 0 THEN NoRotation                         \* etf.py:335
        ELSE IF current_total_units <= 0 THEN out("no_units", <<>>)      \* etf.py:354
        ELSE IF ~need_rebalance THEN out("balanced", <<>>)               \* etf.py:368
        ELSE IF cheap = <<>> \/ expensive = <<>> THEN out("one_sided", <<>>)   \* etf.py:379
        ELSE IF suggested_units < min_units THEN out("too_small", <<>>)  \* etf.py:394
        ELSE out("suggested",
                 << [kind |-> "rotation", cheap |-> cheap_name, expensive |-> expensive_name,
                     units |-> suggested_units] >>)

-----------------------------------------------------------------------------
(* State store: load_state and save_state, etf.py:63-83 *)

\* json.dump and json.load of one last_price: None is written as null
ToJson(last_price) == IF last_price = None THEN <<"null">> ELSE <<"number", last_price[1]>>

FromJson(j) == IF j[1] = "null" THEN None ELSE Some(j[2])

\* etf.py:81: the document json.dump writes for a state
JsonDump(st) ==
    [n \in DOMAIN st |-> [last_price |-> ToJson(st[n].last_price), tick |-> st[n].tick]]

\* etf.py:67: the mapping json.load reads from a document
JsonLoad(doc) ==
    [n \in DOMAIN doc |-> [last_price |-> FromJson(doc[n].last_price), tick |-> doc[n].tick]]

FreshEntry == [last_price |-> None, tick |-> 0]

\* etf.py:76
FreshState(ec) == [n \in DOMAIN ec |-> FreshEntry]

FileMissing == [kind |-> "missing"]

FileCorrupt == [kind |-> "corrupt"]

FileWith(doc) == [kind |-> "json", doc |-> doc]

\* load_state that keeps only the configured assets
load_state_configured_only(file, ec) ==
    IF file.kind = "json"
    THEN LET loaded == JsonLoad(file.doc)
         IN  [n \in DOMAIN ec |-> IF n \in DOMAIN loaded THEN loaded[n] ELSE FreshEntry]
    ELSE FreshState(ec)

\* etf.py:63-76
load_state(file, ec) ==
    IF file.kind = "json"
    THEN LET loaded == JsonLoad(file.doc)
         IN  [n \in DOMAIN loaded \cup DOMAIN ec |->
                 IF n \in DOMAIN loaded THEN loaded[n] ELSE FreshEntry]
    ELSE FreshState(ec)

\* etf.py:78-83: what the file holds after save_state ended as `outcome`.  open(.., "w")
\* empties the file before json.dump writes, so a failed write leaves no document.
save_state(file, st, outcome) ==
    CASE outcome = "ok"           -> FileWith(JsonDump(st))
      [] outcome = "open_failed"  -> file
      [] outcome = "write_failed" -> FileCorrupt

SaveOutcomes == {"ok", "open_failed", "write_failed"}

\* etf.py:143-169: no token (the message is only logged), pushed, or failed (an
\* exception, a non-2xx response or a result code other than 200)
\* PUSHPLUS_TOKEN is read once per process (etf.py:55); the model lets every call
\* take any of the three outcomes, which covers both kinds of process.
NotifyOutcomes == {"logged", "pushed", "failed"}

\* etf.py:454: "\n\n".join(all_messages), the separator standing between two messages
Blank == [kind |-> "blank"]

RECURSIVE Join(_)
Join(msgs) ==
    IF Len(msgs) <= 1 THEN msgs
    ELSE <<Head(msgs), Blank>> \o Join(Tail(msgs))

-----------------------------------------------------------------------------
(* The configurations and prices the model draws *)

\* an asset with base price 1.000 and 1000 base units; every other key is left to
\* its default
AssetCfg(dy) ==
    IF dy = None
    THEN [symbol |-> "SH", base_price |-> 1000, base_units |-> 1000]
    ELSE [symbol |-> "SH", base_price |-> 1000, base_units |-> 1000, dividend_yield |-> dy]

RotationOn == [enabled |-> TRUE, members |-> <<"A", "B">>]

LoopConfigs ==
    { [etf |-> ("A" :> AssetCfg(Some(80))), rot |-> None],
      [etf |-> ("A" :> AssetCfg(None)) @@ ("B" :> AssetCfg(Some(30))), rot |-> None],
      [etf |-> ("A" :> AssetCfg(Some(80))) @@ ("B" :> AssetCfg(Some(30))),
       rot |-> RotationOn] }

LoopPrices == {960, 1040, 1080}

NotFetched == [n \in Assets |-> <<>>]

-----------------------------------------------------------------------------
(* main_loop, etf.py:430-458 *)

\* etf.py:48-50 and 431: the process starts with configuration c and the state file `file`
Startup(c, file) ==
    /\ ETF_CONFIG = c.etf
    /\ ROTATION_CONFIG = c.rot
    /\ state = load_state(file, c.etf)
    /\ state0 = load_state(file, c.etf)
    /\ disk = file
    /\ pc = "eval"
    /\ idx = 1
    /\ all_messages = <<>>
    /\ ev = NoEval
    /\ rot = RotationPending
    /\ fetched = NotFetched
    /\ notified = "none"
    /\ saved = "none"
    /\ restarts = 0
    /\ outbox = <<>>
    /\ rot_first = <<>>

Init ==
    /\ \E c \in LoopConfigs, file \in {FileMissing, FileCorrupt} : Startup(c, file)
    /\ written = <<>>
    /\ market = LoopPrices
    /\ tally = Tallies({})

\* the for loop without its try/except: a failed fetch ends the loop
EvalAssetAbortingLoop ==
    /\ pc = "eval"
    /\ idx <= Len(Keys(ETF_CONFIG))
    /\ LET name == Keys(ETF_CONFIG)[idx]
       IN  \E outcome \in FetchOutcomes(market) :
             LET r == check_signals_for_etf(name, ETF_CONFIG[name], state, outcome)
             IN  /\ state' = r.st
                 /\ all_messages' = all_messages \o r.msgs
                 /\ ev' = r.ev
                 /\ fetched' = [fetched EXCEPT ![name] = <<outcome>>]
                 /\ tally' = IF name \in DOMAIN tally
                             THEN [tally EXCEPT ![name] = Tally(@, r)] ELSE tally
                 /\ idx' = idx + 1
                 /\ pc' = IF idx = Len(Keys(ETF_CONFIG)) \/ ~outcome.ok
                          THEN "rotation" ELSE "eval"
    /\ UNCHANGED <<ETF_CONFIG, ROTATION_CONFIG, disk, rot, state0, notified, saved,
                   written, restarts, market, outbox, rot_first>>

\* etf.py:438-443: one iteration of the for loop over ETF_CONFIG.items()
EvalAsset ==
    /\ pc = "eval"
    /\ idx <= Len(Keys(ETF_CONFIG))
    /\ LET name == Keys(ETF_CONFIG)[idx]
       IN  \E outcome \in FetchOutcomes(market) :
             LET r == check_signals_for_etf(name, ETF_CONFIG[name], state, outcome)
             IN  /\ state' = r.st
                 /\ all_messages' = all_messages \o r.msgs
                 /\ ev' = r.ev
                 /\ fetched' = [fetched EXCEPT ![name] = <<outcome>>]
                 /\ tally' = IF name \in DOMAIN tally
                             THEN [tally EXCEPT ![name] = Tally(@, r)] ELSE tally
    /\ idx' = idx + 1
    /\ pc' = IF idx = Len(Keys(ETF_CONFIG)) THEN "rotation" ELSE "eval"
    /\ UNCHANGED <<ETF_CONFIG, ROTATION_CONFIG, disk, rot, state0, notified, saved,
                   written, restarts, market, outbox, rot_first>>

\* etf.py:445-450 with the rotation message put in front of the grid messages
RotationPrepending ==
    /\ pc = "rotation"
    /\ rot' = compute_rotation_suggestions(ROTATION_CONFIG, ETF_CONFIG)
    /\ all_messages' = rot'.msgs \o all_messages
    /\ rot_first' = IF rot_first = <<>> THEN <<rot'>> ELSE rot_first
    /\ pc' = "notify"
    /\ UNCHANGED <<ETF_CONFIG, ROTATION_CONFIG, state, disk, idx, ev, state0, fetched,
                   notified, saved, written, restarts, market, outbox, tally>>

\* a rotation that is computed only once every configured asset has a last price
RotationNeedingPrices ==
    /\ pc = "rotation"
    /\ rot' = IF \A n \in DOMAIN ETF_CONFIG : state[n].last_price # None
              THEN compute_rotation_suggestions(ROTATION_CONFIG, ETF_CONFIG)
              ELSE NoRotation
    /\ all_messages' = all_messages \o rot'.msgs
    /\ rot_first' = IF rot_first = <<>> THEN <<rot'>> ELSE rot_first
    /\ pc' = "notify"
    /\ UNCHANGED <<ETF_CONFIG, ROTATION_CONFIG, state, disk, idx, ev, state0, fetched,
                   notified, saved, written, restarts, market, outbox, tally>>

\* a rotation that emits its suggestion only in the first cycle of a process
RotationOncePerProcess ==
    /\ pc = "rotation"
    /\ rot' = IF rot_first = <<>>
              THEN compute_rotation_suggestions(ROTATION_CONFIG, ETF_CONFIG)
              ELSE [compute_rotation_suggestions(ROTATION_CONFIG, ETF_CONFIG)
                      EXCEPT !.msgs = <<>>]
    /\ all_messages' = all_messages \o rot'.msgs
    /\ rot_first' = IF rot_first = <<>> THEN <<rot'>> ELSE rot_first
    /\ pc' = "notify"
    /\ UNCHANGED <<ETF_CONFIG, ROTATION_CONFIG, state, disk, idx, ev, state0, fetched,
                   notified, saved, written, restarts, market, outbox, tally>>

\* etf.py:445-450
Rotation ==
    /\ pc = "rotation"
    /\ rot' = compute_rotation_suggestions(ROTATION_CONFIG, ETF_CONFIG)
    /\ all_messages' = all_messages \o rot'.msgs
    /\ rot_first' = IF rot_first = <<>> THEN <<rot'>> ELSE rot_first
    /\ pc' = "notify"
    /\ UNCHANGED <<ETF_CONFIG, ROTATION_CONFIG, state, disk, idx, ev, state0, fetched,
                   notified, saved, written, restarts, market, outbox, tally>>

\* a send_notification whose failure puts the state back to the start of the cycle
SendNotificationRollingBack ==
    /\ pc = "notify"
    /\ all_messages # <<>>
    /\ \E outcome \in NotifyOutcomes :
         /\ notified' = outcome
         /\ state' = IF outcome = "failed" THEN state0 ELSE state
    /\ outbox' = Append(outbox, Join(all_messages))
    /\ pc' = "save"
    /\ UNCHANGED <<ETF_CONFIG, ROTATION_CONFIG, disk, idx, all_messages, ev, rot,
                   state0, fetched, saved, written, restarts, market, rot_first, tally>>

\* etf.py:453-455 with a message to send: send_notification returns whatever happens
SendNotification ==
    /\ pc = "notify"
    /\ all_messages # <<>>
    /\ \E outcome \in NotifyOutcomes : notified' = outcome
    /\ outbox' = Append(outbox, Join(all_messages))
    /\ pc' = "save"
    /\ UNCHANGED <<ETF_CONFIG, ROTATION_CONFIG, state, disk, idx, all_messages, ev, rot,
                   state0, fetched, saved, written, restarts, market, rot_first, tally>>

\* etf.py:453 with nothing to send
SkipNotification ==
    /\ pc = "notify"
    /\ all_messages = <<>>
    /\ pc' = "save"
    /\ UNCHANGED <<ETF_CONFIG, ROTATION_CONFIG, state, disk, idx, all_messages, ev, rot,
                   state0, fetched, notified, saved, written, restarts, market, outbox,
                   rot_first, tally>>

\* etf.py:457
SaveState ==
    /\ pc = "save"
    /\ \E outcome \in SaveOutcomes :
         /\ disk' = save_state(disk, state, outcome)
         /\ saved' = outcome
         /\ written' = CASE outcome = "ok"           -> <<state>>
                          [] outcome = "open_failed"  -> written
                          [] outcome = "write_failed" -> <<>>
    /\ pc' = "sleep"
    /\ UNCHANGED <<ETF_CONFIG, ROTATION_CONFIG, state, idx, all_messages, ev, rot,
                   state0, fetched, notified, restarts, market, outbox, rot_first, tally>>

\* etf.py:458 and 434-435: the sleep ends and the next cycle begins
Sleep ==
    /\ pc = "sleep"
    /\ \A n \in DOMAIN ETF_CONFIG : state[n].tick < MaxTick
    /\ pc' = "eval"
    /\ idx' = 1
    /\ all_messages' = <<>>
    /\ state0' = state
    /\ fetched' = NotFetched
    /\ notified' = "none"
    /\ saved' = "none"
    /\ rot' = RotationPending
    /\ outbox' = <<>>
    /\ UNCHANGED <<ETF_CONFIG, ROTATION_CONFIG, state, disk, ev, written, restarts, market,
                   rot_first, tally>>

\* The process is killed between two statements and started again: the configuration
\* file is read anew (it may have changed) and load_state reads the state file.
Restart ==
    /\ restarts < MaxRestarts
    /\ restarts' = restarts + 1
    /\ \E c \in LoopConfigs :
         /\ ETF_CONFIG' = c.etf
         /\ ROTATION_CONFIG' = c.rot
         /\ state' = load_state(disk, c.etf)
         /\ state0' = load_state(disk, c.etf)
    /\ pc' = "eval"
    /\ idx' = 1
    /\ all_messages' = <<>>
    /\ ev' = NoEval
    /\ rot' = RotationPending
    /\ fetched' = NotFetched
    /\ notified' = "none"
    /\ saved' = "none"
    /\ outbox' = <<>>
    /\ rot_first' = <<>>
    /\ tally' = Tallies(DOMAIN tally)
    /\ UNCHANGED <<disk, written, market>>

Next ==
    \/ EvalAsset
    \/ Rotation
    \/ SendNotification
    \/ SkipNotification
    \/ SaveState
    \/ Sleep
    \/ Restart

Spec == Init /\ [][Next]_vars

-----------------------------------------------------------------------------
(* check_signals_for_etf on its own: one asset, every tier, prices on both sides of
   base_price and on the grid lines *)

GridYields ==
    {None, Some(-10), Some(30), Some(49), Some(50), Some(59), Some(60), Some(69), Some(70),
     Some(80)}

\* the tier spacings left to their defaults, or all of them set; and an asset of 150
\* base units, whose step of 1% is one unit and a half
GridCfgs ==
    {AssetCfg(dy) : dy \in GridYields}
    \cup {AssetCfg(dy) @@ [grid_pct |-> 50, grid_low |-> 20, grid_mid |-> 30,
                           grid_high |-> 40, grid_expensive |-> 80] : dy \in GridYields}
    \cup {[AssetCfg(None) EXCEPT !.base_units = 150]}

GridPrices == {880, 940, 960, 990, 1000, 1010, 1040, 1080, 1120}

\* the asset was never observed, or was observed once at one of the prices
GridStates ==
    {"A" :> FreshEntry} \cup {"A" :> [last_price |-> Some(p), tick |-> 1] : p \in GridPrices}

InitGrid ==
    /\ \E cfg \in GridCfgs, st \in GridStates :
         /\ Startup([etf |-> "A" :> cfg, rot |-> None], FileWith(JsonDump(st)))
         /\ written = <<st>>
    /\ market = GridPrices
    /\ tally = Tallies({})

SpecGrid == InitGrid /\ [][EvalAsset]_vars

-----------------------------------------------------------------------------
(* compute_rotation_suggestions on its own: two or three members, yields and base
   units drawn from small sets, the band at its default and narrowed; and a pair of
   60 and 75 base units whose steps of 10% are 6 and 7.5 units *)

RotYields == {None, Some(-10), Some(10), Some(20), Some(50), Some(80)}

RotUnits == {500, 1000}

RotAssetCfg(dy, units) ==
    IF dy = None
    THEN [symbol |-> "SH", base_price |-> 1000, base_units |-> units]
    ELSE [symbol |-> "SH", base_price |-> 1000, base_units |-> units, dividend_yield |-> dy]

RotEtfConfigs ==
    {("A" :> RotAssetCfg(ya, ua)) @@ ("B" :> RotAssetCfg(yb, ub)) :
        ya \in RotYields, yb \in RotYields, ua \in RotUnits, ub \in RotUnits}
    \cup {("A" :> RotAssetCfg(ya, 1000)) @@ ("B" :> RotAssetCfg(yb, 1000))
              @@ ("C" :> RotAssetCfg(yc, 1000)) :
              ya \in RotYields, yb \in RotYields, yc \in RotYields}
    \cup {("A" :> (RotAssetCfg(Some(50), 60) @@ [step_pct |-> 100]))
              @@ ("B" :> (RotAssetCfg(Some(50), 75) @@ [step_pct |-> 100]))}

RotConfigs ==
    { [enabled |-> TRUE, members |-> <<"A", "B", "C">>],
      [enabled |-> TRUE, members |-> <<"A", "B", "C">>, min_weight |-> 300, max_weight |-> 600],
      [enabled |-> TRUE, members |-> <<"B", "A">>, rebalance_threshold |-> 400,
       total_base_units |-> 3000],
      [enabled |-> FALSE, members |-> <<"A", "B">>] }

\* a first cycle in which every price fetch has failed stands before etf.py:447
InitRot ==
    /\ ETF_CONFIG \in RotEtfConfigs
    /\ ROTATION_CONFIG \in RotConfigs
    /\ state = [n \in DOMAIN ETF_CONFIG |-> [last_price |-> None, tick |-> 1]]
    /\ state0 = FreshState(ETF_CONFIG)
    /\ disk = FileMissing
    /\ pc = "rotation"
    /\ idx = Len(Keys(ETF_CONFIG)) + 1
    /\ all_messages = <<>>
    /\ ev = [NoEval EXCEPT !.name = Keys(ETF_CONFIG)[Len(Keys(ETF_CONFIG))],
                           !.mode = decide_grid_and_mode(ETF_CONFIG[Keys(ETF_CONFIG)[Len(Keys(ETF_CONFIG))]])]
    /\ rot = RotationPending
    /\ fetched = [n \in Assets |-> IF n \in DOMAIN ETF_CONFIG
                                   THEN <<[ok |-> FALSE, price |-> 0]>> ELSE <<>>]
    /\ notified = "none"
    /\ saved = "none"
    /\ written = <<>>
    /\ restarts = 0
    /\ market = LoopPrices
    /\ outbox = <<>>
    /\ rot_first = <<>>
    /\ tally = Tallies({})

SpecRot == InitRot /\ [][Rotation]_vars

-----------------------------------------------------------------------------
(* One run of main_loop over a single asset that is tallied from its first
   observation: buying and selling both permitted, or tier D *)

RunCfgs == {AssetCfg(None), AssetCfg(Some(30))}

RunPrices == {940, 990, 1040, 1080, 1120}

InitRun ==
    /\ \E cfg \in RunCfgs : Startup([etf |-> "A" :> cfg, rot |-> None], FileMissing)
    /\ written = <<>>
    /\ market = RunPrices
    /\ tally = Tallies({"A"})

NextRun ==
    \/ EvalAsset
    \/ Rotation
    \/ SendNotification
    \/ SkipNotification
    \/ SaveState
    \/ Sleep

SpecRun == InitRun /\ [][NextRun]_vars

-----------------------------------------------------------------------------
(* Claims about the grid engine and the tier policy, checked under SpecGrid *)

\* an evaluation that fetched a price and had a previous price to compare it with
Compared == ev.name # "" /\ ev.ok /\ ~ev.first

EvalBase == ETF_CONFIG[ev.name]["base_price"]

EvalYield == Get(ETF_CONFIG[ev.name], "dividend_yield", None)

\* C1: the grid index computed for current_price and for last_price is
\* floor((price / base_price - 1) / grid_pct), for prices above and below base_price;
\* a price less than one spacing below base_price has index -1.
C1_GridIndexIsFloor ==
    Compared =>
        /\ ev.current_grid
             = FloorDiv((ev.price - EvalBase) * Scale, EvalBase * ev.mode.grid_pct)
        /\ ev.last_grid
             = FloorDiv((ev.prev.last_price[1] - EvalBase) * Scale, EvalBase * ev.mode.grid_pct)

\* C2: a successful evaluation with a previous price whose crossing direction is
\* permitted returns exactly |current_grid - last_grid| messages, one per grid index,
\* nearest to last_grid first: sells for last_grid+1 .. current_grid ascending, buys for
\* last_grid-1 .. current_grid descending, and none when the grids are equal.
C2_OneMessagePerGridLine ==
    Compared =>
        /\ (ev.current_grid > ev.last_grid /\ ev.mode.can_sell) =>
              /\ Len(ev.msgs) = ev.current_grid - ev.last_grid
              /\ \A i \in 1..Len(ev.msgs) :
                    /\ ev.msgs[i].kind = "sell"
                    /\ ev.msgs[i].name = ev.name
                    /\ ev.msgs[i].g = ev.last_grid + i
        /\ (ev.current_grid < ev.last_grid /\ ev.mode.can_buy) =>
              /\ Len(ev.msgs) = ev.last_grid - ev.current_grid
              /\ \A i \in 1..Len(ev.msgs) :
                    /\ ev.msgs[i].kind = "buy"
                    /\ ev.msgs[i].name = ev.name
                    /\ ev.msgs[i].g = ev.last_grid - i
        /\ (ev.current_grid = ev.last_grid) => ev.msgs = <<>>

\* base 1.000, spacing 0.04, 1.000 -> 1.080: sells for grid 1, then grid 2
C2_Witness ==
    /\ Compared
    /\ EvalBase = 1000 /\ ev.mode.grid_pct = 40
    /\ ev.prev.last_price = Some(1000) /\ ev.price = 1080
    /\ Len(ev.msgs) = 2
    /\ ev.msgs[1].kind = "sell" /\ ev.msgs[1].g = 1
    /\ ev.msgs[2].kind = "sell" /\ ev.msgs[2].g = 2

\* C3: for an asset whose dividend_yield is set and below 0.05, an evaluation with
\* current_grid < last_grid returns no message however many lines the price fell
\* through, and an evaluation with current_grid > last_grid still returns the sells.
C3_TierDNeverBuys ==
    (Compared /\ EvalYield # None /\ EvalYield[1] < 50) =>
        /\ (ev.current_grid < ev.last_grid) => ev.msgs = <<>>
        /\ (ev.current_grid > ev.last_grid) =>
              /\ Len(ev.msgs) = ev.current_grid - ev.last_grid
              /\ \A i \in 1..Len(ev.msgs) : ev.msgs[i].kind = "sell"

\* a tier D asset fell through two grid lines or more and nothing was returned
C3_Witness ==
    /\ Compared
    /\ EvalYield # None /\ EvalYield[1] < 50
    /\ ev.last_grid - ev.current_grid >= 2
    /\ ev.msgs = <<>>

\* C4: decide_grid_and_mode maps every dividend_yield to exactly one tier, the lower
\* bound of each tier inclusive: unset -> grid_pct; >= 0.07 -> grid_low; [0.06, 0.07) ->
\* grid_mid; [0.05, 0.06) -> grid_high; < 0.05, negative yields too -> grid_expensive.
\* Selling is allowed in every tier and buying is refused only in the last one.
C4_TierTable ==
    (ev.name # "") =>
        LET cfg == ETF_CONFIG[ev.name]
            dy  == EvalYield
        IN  /\ ev.mode.can_sell
            /\ ev.mode.can_buy <=> (dy = None \/ dy[1] >= 50)
            /\ (dy = None) => ev.mode.grid_pct = Get(cfg, "grid_pct", 40)
            /\ (dy # None /\ dy[1] >= 70) => ev.mode.grid_pct = Get(cfg, "grid_low", 30)
            /\ (dy # None /\ 60 <= dy[1] /\ dy[1] < 70) =>
                   ev.mode.grid_pct = Get(cfg, "grid_mid", 40)
            /\ (dy # None /\ 50 <= dy[1] /\ dy[1] < 60) =>
                   ev.mode.grid_pct = Get(cfg, "grid_high", 50)
            /\ (dy # None /\ dy[1] < 50) => ev.mode.grid_pct = Get(cfg, "grid_expensive", 60)

\* a negative yield was put in the last tier, with the configured grid_expensive
C4_Witness ==
    /\ ev.name # ""
    /\ EvalYield = Some(-10)
    /\ "grid_expensive" \in DOMAIN ETF_CONFIG[ev.name]
    /\ ev.mode.grid_pct = 80
    /\ ~ev.mode.can_buy /\ ev.mode.can_sell

-----------------------------------------------------------------------------
(* Claims about main_loop and the state store, checked under Spec *)

Configured == DOMAIN ETF_CONFIG

FetchOk(n) == fetched[n] # <<>> /\ fetched[n][1].ok

FetchFailed(n) == fetched[n] # <<>> /\ ~fetched[n][1].ok

\* the grid messages of asset n among this cycle's messages
GridMsgsOf(n) == SelectSeq(all_messages, LAMBDA m : m.kind # "rotation" /\ m.name = n)

\* what one evaluation of asset n alone returns, from its own entry at the start of
\* the cycle and the price fetched for it
OwnMessages(n) ==
    check_signals_for_etf(n, ETF_CONFIG[n], n :> state0[n], fetched[n][1]).msgs

\* C5, as claimed: when the price fetch of an asset fails, its whole AssetState
\* (last_price and tick) is as before the cycle, in memory and in the saved document.
C5_FailedFetchLeavesState ==
    \A n \in Configured :
        FetchFailed(n) =>
            /\ state[n] = state0[n]
            /\ (pc = "sleep" /\ saved = "ok") => disk.doc[n] = JsonDump(state0)[n]

\* C5, amended: when the price fetch of an asset fails, the asset contributes no
\* message and its last_price is as before the cycle, but its tick has been
\* incremented by one; the document saved at the end of the cycle holds that.
C5_FailedFetchKeepsLastPrice ==
    \A n \in Configured :
        FetchFailed(n) =>
            /\ state[n].last_price = state0[n].last_price
            /\ state[n].tick = state0[n].tick + 1
            /\ GridMsgsOf(n) = <<>>
            /\ (pc = "sleep" /\ saved = "ok") =>
                  /\ disk.kind = "json"
                  /\ n \in DOMAIN disk.doc
                  /\ disk.doc[n] = [last_price |-> ToJson(state0[n].last_price),
                                    tick |-> state0[n].tick + 1]

\* a cycle ended and was saved in which the fetch failed for an asset with a price on record
C5_Witness ==
    /\ pc = "sleep" /\ saved = "ok"
    /\ \E n \in Configured : FetchFailed(n) /\ state0[n].last_price # None

\* C6: a failed evaluation of one asset does not keep the same cycle from evaluating
\* every other configured asset, computing the rotation, notifying and saving, and the
\* messages of each other asset are those of its own evaluation.
C6_FailureIsIsolated ==
    (pc = "sleep") =>
        /\ \A n \in Configured : fetched[n] # <<>>
        /\ rot = compute_rotation_suggestions(ROTATION_CONFIG, ETF_CONFIG)
        /\ (notified # "none") <=> (all_messages # <<>>)
        /\ saved # "none"
        /\ \A n \in Configured : FetchOk(n) => GridMsgsOf(n) = OwnMessages(n)
        /\ Len(all_messages)
             = SumSeq([i \in 1..Len(Keys(ETF_CONFIG)) |-> Len(GridMsgsOf(Keys(ETF_CONFIG)[i]))])
               + Len(rot.msgs)

\* the fetch failed for A; B was evaluated and its signals, with the rotation
\* suggestion, were notified and the state saved
C6_Witness ==
    /\ pc = "sleep"
    /\ Configured = {"A", "B"}
    /\ FetchFailed("A") /\ FetchOk("B")
    /\ GridMsgsOf("B") # <<>>
    /\ rot.stage = "suggested"
    /\ notified = "pushed" /\ saved = "ok"

\* a start of the process that has not evaluated anything yet
JustStarted == pc = "eval" /\ idx = 1 /\ ev = NoEval /\ fetched = NotFetched

\* C8: the state a start of the process loads holds, for every asset of the saved
\* document, the saved last_price and tick, and a fresh entry for every configured
\* asset the document lacks; nothing else is added or dropped; with no readable
\* document every configured asset is fresh.
C8_SaveLoadRoundTrip ==
    JustStarted =>
        IF written = <<>>
        THEN state = [n \in Configured |-> [last_price |-> None, tick |-> 0]]
        ELSE /\ DOMAIN state = DOMAIN written[1] \cup Configured
             /\ \A n \in DOMAIN written[1] : state[n] = written[1][n]
             /\ \A n \in Configured \ DOMAIN written[1] :
                    state[n] = [last_price |-> None, tick |-> 0]

\* a restart loaded a document with a recorded price and lacking a configured asset
C8_Witness ==
    /\ JustStarted
    /\ restarts > 0
    /\ written # <<>>
    /\ \E n \in DOMAIN written[1] : written[1][n].last_price # None /\ state[n] = written[1][n]
    /\ \E n \in Configured : n \notin DOMAIN written[1]

\* C9: in every cycle the state is persisted before the notification is delivered.
C9_PersistBeforeNotify == (notified # "none") => (saved # "none")

\* C10: a failed delivery neither rolls back nor retries: every asset evaluated in
\* the cycle keeps the fetched price and the incremented tick, the document saved in
\* that cycle holds them, and a cycle's messages are only those of its own crossings,
\* so none is carried into a later cycle.
C10_DeliveryFailureKeepsState ==
    /\ (notified = "failed") =>
          \A n \in Configured :
              FetchOk(n) =>
                  /\ state[n] = [last_price |-> Some(fetched[n][1].price),
                                 tick |-> state0[n].tick + 1]
                  /\ (pc = "sleep" /\ saved = "ok") =>
                        disk.doc[n] = [last_price |-> <<"number", fetched[n][1].price>>,
                                       tick |-> state0[n].tick + 1]
    /\ (pc = "eval" /\ idx = 1) => all_messages = <<>>
    /\ \A n \in Configured :
          GridMsgsOf(n) = IF FetchOk(n) THEN OwnMessages(n) ELSE <<>>

\* a cycle with grid signals whose delivery failed ended with the state saved
C10_Witness ==
    /\ pc = "sleep"
    /\ notified = "failed" /\ saved = "ok"
    /\ \E n \in Configured : FetchOk(n) /\ GridMsgsOf(n) # <<>>

-----------------------------------------------------------------------------
(* Claims about the rotation engine, checked under SpecRot *)

RotMembers == {rot.etfs[i] : i \in 1..Len(rot.etfs)}

\* C7: when total_score > 0 and min_weight <= 1/N <= max_weight, every target
\* weight after clipping and renormalization lies in [min_weight, max_weight] and the
\* target weights sum to 1.
C7_WeightsInBand ==
    (/\ rot.stage \notin {"off", "pending"}
     /\ rot.min_w * Len(rot.etfs) <= Scale
     /\ Scale <= rot.max_w * Len(rot.etfs)) =>
        /\ \A n \in RotMembers :
              /\ rot.min_w * rot.w_den <= rot.w_num[n] * Scale
              /\ rot.w_num[n] * Scale <= rot.max_w * rot.w_den
        /\ SumSeq([i \in 1..Len(rot.etfs) |-> rot.w_num[rot.etfs[i]]]) = rot.w_den

-----------------------------------------------------------------------------
(* Claims about one cycle's notification, checked under Spec *)

\* the messages the evaluation of asset n returned in this cycle, computed again from
\* the state the cycle began with and the price that was fetched
Produced(n) ==
    IF FetchOk(n)
    THEN check_signals_for_etf(n, ETF_CONFIG[n], state0, fetched[n][1]).msgs
    ELSE <<>>

RECURSIVE ProducedInOrder(_)
ProducedInOrder(names) ==
    IF names = <<>> THEN <<>> ELSE Produced(Head(names)) \o ProducedInOrder(Tail(names))

\* the cycle has passed etf.py:453-455
PastNotify == pc \in {"save", "sleep"}

\* C11: a cycle calls send_notification at most once, and once exactly when a grid or
\* rotation message was produced; what it sends is the grid messages in the order of
\* the configured assets, then the rotation message, joined by blank lines; a cycle in
\* which every asset failed and no rotation message was produced sends nothing.
C11_OneJoinedNotification ==
    /\ Len(outbox) <= 1
    /\ (outbox = <<>>) <=> (notified = "none")
    /\ PastNotify =>
         LET produced == ProducedInOrder(Keys(ETF_CONFIG)) \o rot.msgs
         IN  /\ (Len(outbox) = 1) <=> (produced # <<>>)
             /\ Len(outbox) = 1 => outbox[1] = Join(produced)
             /\ ((\A n \in Configured : FetchFailed(n)) /\ rot.msgs = <<>>) => outbox = <<>>

\* a cycle sent one notification holding a grid message of A, a blank line, a grid
\* message of B, a blank line and the rotation message
C11_Witness ==
    /\ pc = "sleep"
    /\ Len(outbox) = 1
    /\ Produced("A") # <<>>
    /\ "B" \in Configured /\ Produced("B") # <<>>
    /\ rot.msgs # <<>>
    /\ outbox[1][1].kind # "rotation" /\ outbox[1][1].name = "A"
    /\ outbox[1][2] = Blank
    /\ outbox[1][Len(outbox[1])].kind = "rotation"

-----------------------------------------------------------------------------
(* Claims about the content of grid messages, checked under SpecGrid *)

\* C12: the unit adjustment carried by every grid message is base_units * step_pct
\* rounded to the nearest integer (150 units at 1% give 2).
C12_StepUnitsRounded ==
    Compared =>
      \A i \in 1..Len(ev.msgs) :
        ev.msgs[i].step_units =
          RoundDiv(Get(ETF_CONFIG[ev.name], "base_units", 0)
                     * Get(ETF_CONFIG[ev.name], "step_pct", 10), Scale)

-----------------------------------------------------------------------------
(* Claims about the rotation engine inside main_loop, checked under Spec *)

\* the entry the evaluation of asset n leaves, computed again from the state the cycle
\* began with and the outcome of the fetch
Evaluated(n) == check_signals_for_etf(n, ETF_CONFIG[n], state0, fetched[n][1]).st[n]

\* C13: compute_rotation_suggestions is stateless: every call of a process returns what
\* the first call of that process returned (pair, target units and weights, transfer
\* size), whatever prices were fetched and whatever the asset states have become, and
\* the call leaves every asset's entry as the grid evaluation left it.
C13_RotationIsStateless ==
    /\ rot.stage # "pending" => rot_first # <<>> /\ rot = rot_first[1]
    /\ pc = "notify" => \A n \in Configured : state[n] = Evaluated(n)

\* a second or later call of a process returned a suggestion after the price of A had
\* changed
C13_Witness ==
    /\ pc = "notify"
    /\ restarts = 0
    /\ rot.stage = "suggested"
    /\ state0["A"].tick >= 1
    /\ state0["A"].last_price # None
    /\ state["A"].last_price # state0["A"].last_price

-----------------------------------------------------------------------------
(* Claims about the first observation and the reference price, checked under Spec *)

\* C14: an evaluation that fetches a price for an asset whose last_price is null emits
\* no message, whatever the price, and sets last_price to the fetched price; an asset
\* emits messages only in a cycle it began with a last_price.  This holds as well for
\* an asset that load_state has just added to a saved state.
C14_FirstObservationIsSilent ==
    \A n \in Configured :
      /\ (FetchOk(n) /\ state0[n].last_price = None) =>
           /\ GridMsgsOf(n) = <<>>
           /\ state[n].last_price = Some(fetched[n][1].price)
      /\ GridMsgsOf(n) # <<>> => (FetchOk(n) /\ state0[n].last_price # None)

\* after a restart B is new to the saved state: its first price, a grid line above
\* base_price, emits nothing, while A, which the saved state knew, emits in that cycle
C14_Witness ==
    /\ restarts >= 1
    /\ pc = "rotation"
    /\ written # <<>> /\ "B" \notin DOMAIN written[1]
    /\ "B" \in Configured
    /\ state0["B"].last_price = None
    /\ FetchOk("B") /\ fetched["B"][1].price = 1080
    /\ state["B"].last_price = Some(1080)
    /\ state0["A"].last_price # None
    /\ GridMsgsOf("A") # <<>>

-----------------------------------------------------------------------------
(* Claims about a run of one asset, checked under SpecRun *)

\* the grid index of a price of asset n
GridOfAsset(n, price) ==
    GridOf(price, ETF_CONFIG[n]["base_price"], decide_grid_and_mode(ETF_CONFIG[n]).grid_pct)

\* C15: after every evaluation that fetched a price, last_price is the fetched price,
\* whether a message was emitted or not, a drop suppressed in tier D included; so a rise
\* is measured from the price of the previous evaluation, and after a suppressed drop
\* it emits a sell message for each grid line between that lower price and the new one.
C15_LastPriceFollowsFetch ==
    \A n \in Configured :
      FetchOk(n) =>
        /\ state[n].last_price = Some(fetched[n][1].price)
        /\ state0[n].last_price # None =>
             LET last_grid    == GridOfAsset(n, state0[n].last_price[1])
                 current_grid == GridOfAsset(n, fetched[n][1].price)
             IN  current_grid > last_grid =>
                   /\ Len(GridMsgsOf(n)) = current_grid - last_grid
                   /\ \A i \in 1..Len(GridMsgsOf(n)) : GridMsgsOf(n)[i].kind = "sell"

\* a tier D asset dropped across a grid line without a message, and the rise of this
\* cycle, measured from the lower price, emitted sell messages though no buy message was
\* ever emitted
C15_Witness ==
    /\ pc = "rotation"
    /\ decide_grid_and_mode(ETF_CONFIG["A"]).label = "D"
    /\ tally["A"].suppressed >= 1
    /\ tally["A"].buys = 0
    /\ FetchOk("A")
    /\ state0["A"].last_price # None
    /\ fetched["A"][1].price > state0["A"].last_price[1]
    /\ GridMsgsOf("A") # <<>>
    /\ state["A"].last_price = Some(fetched["A"][1].price)

-----------------------------------------------------------------------------
(* Claims about when and what the rotation engine suggests, checked under SpecRot *)

\* the base units of member n, and of all members
MemberUnits(n) == Get(ETF_CONFIG[n], "base_units", 0)

MembersUnits == SumSeq([i \in 1..Len(rot.etfs) |-> MemberUnits(rot.etfs[i])])

\* |current_weight - target_weight| >= rebalance_threshold / 2 for member n, where
\* current_weight is MemberUnits(n) / MembersUnits and target_weight is w_num[n] / w_den
DeviatesByHalfThreshold(n) ==
    LET a == Abs(MemberUnits(n) * rot.w_den - rot.w_num[n] * MembersUnits)
        b == MembersUnits * rot.w_den
        g == GCD(a, b)
    IN  (a \div g) * 2 * Scale >= Get(ROTATION_CONFIG, "rebalance_threshold", 100) * (b \div g)

\* C16: a rotation message is emitted only if the current weight of at least one member,
\* its base units over the members' base units, is rebalance_threshold / 2 or more away
\* from its target weight; with every deviation below that, no message is emitted.
C16_RebalanceThreshold ==
    rot.msgs # <<>> => \E n \in RotMembers : DeviatesByHalfThreshold(n)

\* a message was emitted, and the current weight of a member is half the threshold
\* or more away from its target weight
C16_Witness ==
    /\ rot.stage = "suggested"
    /\ rot.msgs # <<>>
    /\ \E n \in RotMembers : DeviatesByHalfThreshold(n)
    /\ \E n \in RotMembers : ~DeviatesByHalfThreshold(n)

\* how many units member n has to gain to reach its target
NeededIncrease(n) == rot.target_units[n] - MemberUnits(n)

CheapMembers == SelectSeq(rot.etfs, LAMBDA n : NeededIncrease(n) > 0)

ExpensiveMembers == SelectSeq(rot.etfs, LAMBDA n : NeededIncrease(n) < 0)

\* suggested is not smaller than base_units * step_pct of member n
CoversStepOf(suggested, n) ==
    suggested * Scale >= MemberUnits(n) * Get(ETF_CONFIG[n], "step_pct", 10)

\* C17: a rotation message names the first member that needs an increase and the first
\* that needs a decrease, its transfer size is the smaller of that increase and that
\* decrease, and the size is not smaller than base_units * step_pct of either of the
\* two; with no member to increase or none to decrease no message is emitted.
C17_TransferCoversAStep ==
    /\ rot.msgs # <<>> =>
         /\ CheapMembers # <<>> /\ ExpensiveMembers # <<>>
         /\ rot.msgs[1].cheap = CheapMembers[1]
         /\ rot.msgs[1].expensive = ExpensiveMembers[1]
         /\ rot.msgs[1].units = Min(NeededIncrease(CheapMembers[1]),
                                    -NeededIncrease(ExpensiveMembers[1]))
         /\ CoversStepOf(rot.msgs[1].units, CheapMembers[1])
         /\ CoversStepOf(rot.msgs[1].units, ExpensiveMembers[1])
    /\ (rot.stage \notin {"off", "pending"} /\ (CheapMembers = <<>> \/ ExpensiveMembers = <<>>))
         => rot.msgs = <<>>

-----------------------------------------------------------------------------
(* Claims about the grid line a message names, checked under SpecGrid *)

\* etf.py:263 and 279: level_price = base_price * (1 + g * grid_pct), times Scale
LevelTimesScale(g) == EvalBase * (Scale + g * ev.mode.grid_pct)

\* C18: every grid message names a grid line the price crossed: for a sell the line's
\* level is above last_price and at or below the current price, for a buy it is at or
\* above the current price and below last_price, on either side of base_price.
C18_MessageNamesCrossedLine ==
    Compared =>
      \A i \in 1..Len(ev.msgs) :
        LET m == ev.msgs[i]
        IN  /\ m.kind = "sell" =>
                 /\ ev.prev.last_price[1] * Scale < LevelTimesScale(m.g)
                 /\ LevelTimesScale(m.g) <= ev.price * Scale
            /\ m.kind = "buy" =>
                 /\ ev.price * Scale <= LevelTimesScale(m.g)
                 /\ LevelTimesScale(m.g) < ev.prev.last_price[1] * Scale

-----------------------------------------------------------------------------
(* Claims about the messages of a whole run of one asset, checked under SpecRun *)

\* C19: for an asset that may be bought and sold, at every moment of a run, failed
\* fetches included, the sell messages emitted minus the buy messages emitted since
\* the first observation equal the grid index of last_price minus the grid index of
\* the first observed price.
C19_NetMessagesTelescope ==
    \A n \in DOMAIN tally :
      (/\ decide_grid_and_mode(ETF_CONFIG[n]).can_buy
       /\ decide_grid_and_mode(ETF_CONFIG[n]).can_sell
       /\ tally[n].first # None) =>
          tally[n].sells - tally[n].buys =
            GridOfAsset(n, state[n].last_price[1]) - GridOfAsset(n, tally[n].first[1])

\* after its first observation the asset had a failed fetch, and over the run it
\* emitted sell messages and buy messages whose difference is not zero
C19_Witness ==
    /\ decide_grid_and_mode(ETF_CONFIG["A"]).can_buy
    /\ tally["A"].first # None
    /\ tally["A"].failed >= 1
    /\ tally["A"].sells + tally["A"].buys >= 2
    /\ tally["A"].sells # tally["A"].buys

-----------------------------------------------------------------------------
(* Claims about rotation messages over the cycles of a process, checked under Spec *)

\* the first call of compute_rotation_suggestions of this process emitted a message
RotationEmitted == rot_first # <<>> /\ rot_first[1].msgs # <<>>

\* C20: the configuration is loaded once and the rotation engine keeps no record of
\* what it suggested, so a rotation message emitted in one cycle is emitted again,
\* with the same pair and transfer size, in every later cycle of the process, and
\* every such cycle calls send_notification, whatever the grid engine produced.
C20_RotationRepeatsEveryCycle ==
    /\ (rot.msgs # <<>>) => RotationEmitted
    /\ RotationEmitted =>
         /\ rot.stage # "pending" => rot.msgs = rot_first[1].msgs
         /\ PastNotify =>
              /\ notified # "none"
              /\ Len(outbox) = 1
              /\ outbox[1][Len(outbox[1])] = rot_first[1].msgs[1]

\* a later cycle of a process in which every fetch failed still sent a notification,
\* which holds nothing but the rotation message of the first cycle
C20_Witness ==
    /\ pc = "sleep"
    /\ restarts = 0
    /\ \A n \in Configured : state0[n].tick >= 1 /\ FetchFailed(n)
    /\ RotationEmitted
    /\ outbox = << rot_first[1].msgs >>

=============================================================================
